---- MODULE Spec2Model ----
(***************************************************************************)
(* A model of the TorchRec cookbook helpers in Cookbook/utils:             *)
(*   data_generators.py  TorchRecDataGenerator over the process-wide       *)
(*                       random generator of the tensor library            *)
(*   debugging.py        TorchRecDebugger.validate_kjt / check_sharding    *)
(*   environment.py      TorchRecEnvironment.check_distributed_setup       *)
(*   benchmark.py        TorchRecBenchmark.benchmark_forward               *)
(* Tensors are sequences of integers.  The random generator is a           *)
(* deterministic finite-state generator: every draw is a function of the   *)
(* generator state and advances it, and manual_seed fixes the state.       *)
(***************************************************************************)
EXTENDS Integers, Sequences, FiniteSets, TLC

\* ------------------------------------------------------------------ bounds
MaxSeqLen == 3
MaxBatch == 2
MaxProducts == 2
MaxSeed == 0
MaxFeatures == 2
RngMod == 4
MaxValues == 3
MaxDevices == 1
MaxWorld == 2
MaxSteps == 2
MaxElapsed == 2
MaxPeak == 2

\* ------------------------------------------------- the library's generator
RngStates == 0 .. (RngMod - 1)

\* One step of the process-wide generator: it runs through all its states.
NextState(s) == (s + 1) % RngMod

\* The number a generator state yields before it is reduced to a range.
Temper(s) == (s * (s + 1)) \div 2

\* torch.manual_seed(seed): the state becomes a function of the seed alone.
manual_seed(seed) == (2 * seed + 1) % RngMod

\* The draws r with the number x put before them.
push(x, r) == [rng |-> r.rng, t |-> <<x>> \o r.t]

RECURSIVE draw(_, _, _, _)
\* draw with the upper bound taken as inclusive.
draw_inclusive(s, lo, hi, n) ==
    IF n = 0 THEN [rng |-> s, t |-> <<>>]
    ELSE push(lo + (Temper(NextState(s)) % (hi - lo + 1)), draw(NextState(s), lo, hi, n - 1))

\* n successive draws from [lo, hi), lo < hi, each advancing the state.
draw(s, lo, hi, n) ==
    IF n = 0 THEN [rng |-> s, t |-> <<>>]
    ELSE push(lo + (Temper(NextState(s)) % (hi - lo)), draw(NextState(s), lo, hi, n - 1))

\* randint that accepts low == high, taking the upper bound as inclusive.
randint_closed(s, lo, hi, n) ==
    IF lo > hi THEN [ok |-> FALSE, rng |-> s, t |-> <<>>]
    ELSE [ok |-> TRUE] @@ draw(s, lo, hi + 1, n)

\* torch.randint(low, high, (n,)): raises, before any draw, unless low < high;
\* the upper bound is exclusive.
randint(s, lo, hi, n) ==
    IF lo >= hi THEN [ok |-> FALSE, rng |-> s, t |-> <<>>]
    ELSE [ok |-> TRUE] @@ draw(s, lo, hi, n)

RECURSIVE SumSeq(_)
\* Tensor.sum() of a one-dimensional integer tensor.
SumSeq(t) == IF t = <<>> THEN 0 ELSE Head(t) + SumSeq(Tail(t))

RECURSIVE FlattenReversed(_)
\* The concatenation taken from the last tensor to the first.
FlattenReversed(ts) ==
    IF ts = <<>> THEN <<>> ELSE FlattenReversed(Tail(ts)) \o Head(ts)

RECURSIVE Flatten(_)
\* The concatenation of a list of tensors, in list order.
Flatten(ts) == IF ts = <<>> THEN <<>> ELSE Head(ts) \o Flatten(Tail(ts))

\* torch.cat(tensors): raises on an empty list of tensors.
cat(ts) ==
    IF ts = <<>> THEN [ok |-> FALSE, t |-> <<>>]
    ELSE [ok |-> TRUE, t |-> Flatten(ts)]

\* ------------------------------------------------------------- DataConfig
NumUsersDefault == 1000

\* seed is <<>> for None and <<s>> for the integer s.
Seeds == {<<>>} \cup {<<s>> : s \in 0 .. MaxSeed}

DataConfig ==
    [num_users : {NumUsersDefault},
     num_products : 0 .. MaxProducts,
     max_sequence_length : 1 .. MaxSeqLen,
     min_sequence_length : 0 .. MaxSeqLen,
     batch_size : 0 .. MaxBatch,
     seed : Seeds]

\* ---------------------------------------------------- TorchRecDataGenerator
\* What a call hands back: raised is "" for a normal return, else the
\* primitive the uncaught error came from; rng is the generator state left.
Raise(s, who) ==
    [rng |-> s, raised |-> who, keys |-> <<>>, values |-> <<>>,
     lengths |-> <<>>, batches |-> <<>>]

Return(s, keys, values, lengths, batches) ==
    [rng |-> s, raised |-> "", keys |-> keys, values |-> values,
     lengths |-> lengths, batches |-> batches]

\* __init__ that never seeds.
init_unseeded(s, cfg) == s

\* __init__ that tests the seed for truth, so that seed 0 is not applied.
init_truthy(s, cfg) ==
    IF cfg.seed # <<>> /\ cfg.seed[1] # 0 THEN manual_seed(cfg.seed[1]) ELSE s

\* __init__: keeps the config; seeds the process-wide generator iff seed is set.
init(s, cfg) == IF cfg.seed # <<>> THEN manual_seed(cfg.seed[1]) ELSE s

\* The body of generate_sequence_lengths on the primitive's outcome r.
lengths_of(r) ==
    IF r.ok THEN Return(r.rng, <<>>, <<>>, r.t, <<>>) ELSE Raise(r.rng, "randint")

generate_sequence_lengths(s, cfg, batch_size) ==
    lengths_of(randint(s, cfg.min_sequence_length, cfg.max_sequence_length, batch_size))

\* The mapping generate_batch returns, from lengths l and the values draw v.
batch_of(l, v) ==
    IF v.ok THEN Return(v.rng, <<>>, v.t, l.lengths, <<>>) ELSE Raise(v.rng, "randint")

\* generate_batch drawing one value per row instead of lengths.sum() values.
values_per_row(l, cfg) ==
    IF l.raised # "" THEN l
    ELSE batch_of(l, randint(l.rng, 0, cfg.num_products, Len(l.lengths)))

\* generate_batch after its lengths draw l: total_values = lengths.sum().item().
values_for(l, cfg) ==
    IF l.raised # "" THEN l
    ELSE batch_of(l, randint(l.rng, 0, cfg.num_products, SumSeq(l.lengths)))

generate_batch(s, cfg) ==
    values_for(generate_sequence_lengths(s, cfg, cfg.batch_size), cfg)

\* The list comprehension's result with batch b put before the batches r.
cons_batch(b, r) ==
    IF r.raised # "" THEN r
    ELSE [rng |-> r.rng, raised |-> "",
          bs |-> <<[values |-> b.values, lengths |-> b.lengths]>> \o r.bs]

RECURSIVE gen_batches(_, _, _)
\* One iteration of the comprehension, given what generate_batch handed back.
next_batch(b, cfg, n) ==
    IF b.raised # "" THEN [rng |-> b.rng, raised |-> b.raised, bs |-> <<>>]
    ELSE cons_batch(b, gen_batches(b.rng, cfg, n - 1))

\* [self.generate_batch() for _ in feature_names]: stops at the first error.
gen_batches(s, cfg, n) ==
    IF n = 0 THEN [rng |-> s, raised |-> "", bs |-> <<>>]
    ELSE next_batch(generate_batch(s, cfg), cfg, n)

\* The returned mapping, from the two concatenations vs and ls.
kjt_of(g, feature_names, vs, ls) ==
    IF ~vs.ok \/ ~ls.ok THEN Raise(g.rng, "cat")
    ELSE Return(g.rng, feature_names, vs.t, ls.t, g.bs)

\* generate_kjt_inputs once its batches g are built (or one of them raised).
bundle(g, feature_names) ==
    IF g.raised # "" THEN Raise(g.rng, g.raised)
    ELSE kjt_of(g, feature_names,
                cat([i \in 1 .. Len(g.bs) |-> g.bs[i].values]),
                cat([i \in 1 .. Len(g.bs) |-> g.bs[i].lengths]))

generate_kjt_inputs(s, cfg, feature_names) ==
    bundle(gen_batches(s, cfg, Len(feature_names)), feature_names)

\* -------------------------------------------------------- TorchRecDebugger
\* torch.cuda.is_available(), from the number of devices the runtime reports.
cuda_is_available(dc) == dc > 0

\* validate_kjt with the lengths compared by count instead of by sum.
validate_kjt_by_count(k, dc) ==
    [valid_keys |-> Len(k.keys) > 0,
     lengths_match |-> (Len(k.lengths) = Len(k.values)),
     on_device |-> IF cuda_is_available(dc) THEN k.is_cuda ELSE TRUE]

\* validate_kjt: three independent checks of a jagged structure k.
validate_kjt(k, dc) ==
    [valid_keys |-> Len(k.keys) > 0,
     lengths_match |-> (SumSeq(k.lengths) = Len(k.values)),
     on_device |-> IF cuda_is_available(dc) THEN k.is_cuda ELSE TRUE]

\* ------------------------------------------- the distributed process group
\* backend is <<>> for None and <<b>> for the backend named b.
NoGroup == [initialized |-> FALSE, world_size |-> 0, rank |-> 0, backend |-> <<>>]

Backends == {"gloo", "nccl"}

Groups ==
    {[initialized |-> TRUE, world_size |-> w, rank |-> r, backend |-> <<b>>] :
        w \in 1 .. MaxWorld, r \in 0 .. (MaxWorld - 1), b \in Backends}

is_initialized(d) == d.initialized

\* A getter of the default process group: it raises when there is none.
Query(d, getter, v) ==
    IF d.initialized THEN [raised |-> "", v |-> v, queried |-> {getter}]
    ELSE [raised |-> getter, v |-> v, queried |-> {getter}]

\* A fallback taken without touching the process group.
Default(v) == [raised |-> "", v |-> v, queried |-> {}]

get_world_size(d) == Query(d, "get_world_size", d.world_size)

get_rank(d) == Query(d, "get_rank", d.rank)

get_backend(d) == Query(d, "get_backend", d.backend)

\* world_size read whether or not a group is initialized.
world_size_unguarded(d) == get_world_size(d)

\* "world_size": get_world_size() if is_initialized() else 1
world_size_entry(d) == IF is_initialized(d) THEN get_world_size(d) ELSE Default(1)

\* "local_rank": get_rank() if is_initialized() else 0
local_rank_entry(d) == IF is_initialized(d) THEN get_rank(d) ELSE Default(0)

\* "backend": get_backend() if is_initialized() else None
backend_entry(d) == IF is_initialized(d) THEN get_backend(d) ELSE Default(<<>>)

NoValue == [world_size |-> 0, local_rank |-> 0, device_count |-> 0,
            env_vars_set |-> FALSE, process_group_initialized |-> FALSE,
            backend |-> <<>>]

\* The dict check_sharding builds, entry by entry in source order.
sharding_of(ws, lr, dc) ==
    IF ws.raised # "" THEN [raised |-> ws.raised, queried |-> ws.queried, val |-> NoValue]
    ELSE IF lr.raised # ""
         THEN [raised |-> lr.raised, queried |-> ws.queried \cup lr.queried, val |-> NoValue]
         ELSE [raised |-> "", queried |-> ws.queried \cup lr.queried,
               val |-> [NoValue EXCEPT !.world_size = ws.v, !.local_rank = lr.v,
                                       !.device_count = dc]]

check_sharding(d, dc) == sharding_of(world_size_entry(d), local_rank_entry(d), dc)

\* ----------------------------------------------------- TorchRecEnvironment
required_vars == {"MASTER_ADDR", "MASTER_PORT", "WORLD_SIZE", "RANK"}

EnvNames == required_vars \cup {"PATH"}

\* The dict check_distributed_setup builds.
setup_of(env, d, be) ==
    IF be.raised # "" THEN [raised |-> be.raised, queried |-> be.queried, val |-> NoValue]
    ELSE [raised |-> "", queried |-> be.queried,
          val |-> [NoValue EXCEPT !.env_vars_set = (\A var \in required_vars : var \in env),
                                  !.process_group_initialized = is_initialized(d),
                                  !.backend = be.v]]

check_distributed_setup(env, d) == setup_of(env, d, backend_entry(d))

\* ------------------------------------------------------------------ state
VARIABLES
    rng,        \* the process-wide generator state
    config,     \* the program's DataConfig, held by the generator as self.config
    out,        \* the last generator call: what was called, with what, and its result
    fresh,      \* no draw since the generator was last constructed
    prevFresh,  \* the generate_batch result right after the construction before last
    lastFresh,  \* the generate_batch result right after the last such construction
    rng2,       \* a second run of the same program: its process-wide generator state
    out2,       \* the second run's last generator call
    diverged,   \* the runs' generator states differed when the generator was built
    device_count,  \* accelerators the device runtime reports
    kjt,        \* the jagged structure handed to validate_kjt
    dist,       \* the distributed subsystem's default process group
    environ,    \* the names set in os.environ
    report,     \* what the last check returned, the environment unchanged since
    torch_bound,   \* the name torch resolves in the benchmark module's globals
    warmup_steps,  \* TorchRecBenchmark.warmup_steps
    measure_steps, \* TorchRecBenchmark.measure_steps
    pc,         \* where benchmark_forward stands
    args,       \* the sample_input and batch_size of the running call
    step,       \* invocations the running loop has completed
    log,        \* what benchmark_forward has called so far, in order
    times,      \* start_time and end_time
    avg_time,   \* (end_time - start_time) * 1000 / measure_steps, as a fraction
    memory_used,   \* the peak read, in bytes
    peak,       \* the device's peak-memory counter
    result      \* the BenchmarkResult returned

genVars == <<rng, config, out, fresh, prevFresh, lastFresh>>

historyVars == <<fresh, prevFresh, lastFresh>>

reproVars == <<rng2, out2, diverged>>

inspectVars == <<device_count, kjt, dist, environ, report>>

benchVars == <<torch_bound, warmup_steps, measure_steps, pc, args, step, log, times,
               avg_time, memory_used, peak, result>>

vars == <<genVars, reproVars, inspectVars, benchVars>>

FeatureNames == {"f1", "f2"}

NameLists == UNION {[1 .. n -> FeatureNames] : n \in 0 .. MaxFeatures}

NoCall == [op |-> "__init__", n |-> 0, names |-> <<>>,
           res |-> Return(0, <<>>, <<>>, <<>>, <<>>)]

Call(op, n, names, res) == [op |-> op, n |-> n, names |-> names, res |-> res]

NoBatch == [set |-> FALSE, values |-> <<>>, lengths |-> <<>>, raised |-> ""]

Seeded == config.seed # <<>>

\* -------------------------------------------------------- TorchRecBenchmark
Fraction(num, den) == [num |-> num, den |-> den]

NoResult == [set |-> FALSE, batch_time_ms |-> Fraction(0, 1),
             memory_used_gb |-> Fraction(0, 1), throughput |-> Fraction(0, 1)]

\* BenchmarkResult(avg_time, memory_used, throughput)
BenchmarkResult(avg, mem, thr) ==
    [set |-> TRUE, batch_time_ms |-> avg, memory_used_gb |-> mem, throughput |-> thr]

NoArgs == [sample_input |-> "", batch_size |-> 0]

NoTimes == [start_time |-> 0, end_time |-> 0]

\* The measure loop running warmup_steps times.
measure_range_swapped(w, m) == w

\* range(self.warmup_steps)
warmup_range(w, m) == w

\* range(self.measure_steps)
measure_range(w, m) == m

\* The benchmark is not part of the other specifications.
BenchIdle ==
    /\ torch_bound = FALSE /\ warmup_steps = 0 /\ measure_steps = 0
    /\ pc = "idle" /\ args = NoArgs /\ step = 0 /\ log = <<>> /\ times = NoTimes
    /\ avg_time = Fraction(0, 1) /\ memory_used = 0 /\ peak = 0 /\ result = NoResult

NoKjt == [keys |-> <<>>, values |-> <<>>, lengths |-> <<>>, is_cuda |-> FALSE]

NoReport == [op |-> "", raised |-> "", queried |-> {}, val |-> NoValue,
             checks |-> validate_kjt(NoKjt, 0)]

\* The inspectors are not part of the generator's specifications.
InspectIdle ==
    /\ device_count = 0 /\ kjt = NoKjt /\ dist = NoGroup
    /\ environ = {} /\ report = NoReport
    /\ BenchIdle

\* The second run is not part of the single-run specification.
ReproIdle == rng2 = 0 /\ out2 = NoCall /\ diverged = FALSE

\* The program builds a generator from a DataConfig.
GenInit ==
    /\ config \in DataConfig
    /\ \E s \in RngStates : rng = init(s, config)
    /\ out = NoCall
    /\ fresh = TRUE
    /\ prevFresh = NoBatch
    /\ lastFresh = NoBatch
    /\ ReproIdle
    /\ InspectIdle

\* TorchRecDataGenerator(config) again, from the same DataConfig.
Construct ==
    /\ rng' = init(rng, config)
    /\ fresh' = TRUE
    /\ out' = NoCall
    /\ UNCHANGED <<config, prevFresh, lastFresh, reproVars, inspectVars, benchVars>>

GenerateSequenceLengths ==
    \E n \in 0 .. MaxBatch :
        LET r == generate_sequence_lengths(rng, config, n)
        IN /\ rng' = r.rng
           /\ out' = Call("generate_sequence_lengths", n, <<>>, r)
           /\ fresh' = (fresh /\ r.rng = rng)
           /\ UNCHANGED <<config, prevFresh, lastFresh, reproVars, inspectVars, benchVars>>

GenerateBatch ==
    LET r == generate_batch(rng, config)
    IN /\ rng' = r.rng
       /\ out' = Call("generate_batch", 0, <<>>, r)
       /\ fresh' = FALSE
       /\ IF fresh /\ Seeded
          THEN /\ prevFresh' = lastFresh
               /\ lastFresh' = [set |-> TRUE, values |-> r.values,
                                lengths |-> r.lengths, raised |-> r.raised]
          ELSE UNCHANGED <<prevFresh, lastFresh>>
       /\ UNCHANGED <<config, reproVars, inspectVars, benchVars>>

GenerateKjtInputs ==
    \E names \in NameLists :
        LET r == generate_kjt_inputs(rng, config, names)
        IN /\ rng' = r.rng
           /\ out' = Call("generate_kjt_inputs", 0, names, r)
           /\ fresh' = (fresh /\ r.rng = rng)
           /\ UNCHANGED <<config, prevFresh, lastFresh, reproVars, inspectVars, benchVars>>

GenNext ==
    \/ Construct
    \/ GenerateSequenceLengths
    \/ GenerateBatch
    \/ GenerateKjtInputs

Spec == GenInit /\ [][GenNext]_vars

\* ------------------------------------------ two runs of the same program
\* Both runs build the generator from the same DataConfig, which sets a seed;
\* the process-wide generator of each run is in whatever state its process
\* left it in.  Nothing but the generator's methods draws after that.
ReproInit ==
    /\ config \in {c \in DataConfig : c.seed # <<>>}
    /\ \E s1, s2 \in RngStates :
           /\ rng = init(s1, config)
           /\ rng2 = init(s2, config)
           /\ diverged = (s1 # s2)
    /\ out = NoCall /\ out2 = NoCall
    /\ fresh = TRUE /\ prevFresh = NoBatch /\ lastFresh = NoBatch
    /\ InspectIdle

\* What one call leaves in each run: the generator state and the call's record.
ReproCall(op, n, names, r1, r2) ==
    /\ rng' = r1.rng /\ out' = Call(op, n, names, r1)
    /\ rng2' = r2.rng /\ out2' = Call(op, n, names, r2)
    /\ UNCHANGED <<config, diverged, historyVars, inspectVars, benchVars>>

\* Each run builds the generator again: the first from the state its calls
\* left, the second from any state its process may be in.
ReproConstruct ==
    /\ \E s2 \in RngStates :
           /\ rng' = init(rng, config)
           /\ rng2' = init(s2, config)
           /\ diverged' = (rng # s2)
    /\ out' = NoCall /\ out2' = NoCall
    /\ UNCHANGED <<config, historyVars, inspectVars, benchVars>>

ReproSequenceLengths ==
    \E n \in 0 .. MaxBatch :
        ReproCall("generate_sequence_lengths", n, <<>>,
                  generate_sequence_lengths(rng, config, n),
                  generate_sequence_lengths(rng2, config, n))

ReproBatch ==
    ReproCall("generate_batch", 0, <<>>,
              generate_batch(rng, config), generate_batch(rng2, config))

ReproKjtInputs ==
    \E names \in NameLists :
        ReproCall("generate_kjt_inputs", 0, names,
                  generate_kjt_inputs(rng, config, names),
                  generate_kjt_inputs(rng2, config, names))

ReproNext ==
    \/ ReproConstruct
    \/ ReproSequenceLengths
    \/ ReproBatch
    \/ ReproKjtInputs

SpecRepro == ReproInit /\ [][ReproNext]_vars

\* ------------------------------------------------- validating a structure
GenIdle ==
    /\ rng = 0 /\ out = NoCall
    /\ config = [num_users |-> NumUsersDefault, num_products |-> 0,
                 max_sequence_length |-> 1, min_sequence_length |-> 0,
                 batch_size |-> 0, seed |-> <<>>]
    /\ fresh = TRUE /\ prevFresh = NoBatch /\ lastFresh = NoBatch
    /\ ReproIdle

Tensors(maxLen, maxEntry) == UNION {[1 .. n -> 0 .. maxEntry] : n \in 0 .. maxLen}

KeyLists == {<<>>, <<"f1">>, <<"f1", "f2">>}

\* Any object with keys(), values() and lengths(): nothing ties the three.
JaggedStructures ==
    [keys : KeyLists,
     values : Tensors(MaxValues, 1),
     lengths : Tensors(MaxBatch, MaxSeqLen),
     is_cuda : BOOLEAN]

\* The caller holds a jagged structure; values live on an accelerator only
\* where there is one.
KjtInit ==
    /\ device_count \in 0 .. MaxDevices
    /\ kjt \in {k \in JaggedStructures : k.is_cuda => cuda_is_available(device_count)}
    /\ dist = NoGroup /\ environ = {} /\ report = NoReport
    /\ GenIdle /\ BenchIdle

ValidateKjt ==
    /\ report' = [NoReport EXCEPT !.op = "validate_kjt",
                                  !.checks = validate_kjt(kjt, device_count)]
    /\ UNCHANGED <<device_count, kjt, dist, environ, genVars, reproVars, benchVars>>

\* kjt.to(device): the structure's tensors move to an accelerator or back.
MoveKjt ==
    /\ \E c \in BOOLEAN :
           /\ c => cuda_is_available(device_count)
           /\ kjt' = [kjt EXCEPT !.is_cuda = c]
    /\ report' = NoReport
    /\ UNCHANGED <<device_count, dist, environ, genVars, reproVars, benchVars>>

KjtNext == ValidateKjt \/ MoveKjt

SpecKjt == KjtInit /\ [][KjtNext]_vars

\* --------------------------------------------- the distributed environment
EnvInit ==
    /\ device_count \in 0 .. MaxDevices
    /\ environ \in SUBSET EnvNames
    /\ dist = NoGroup /\ kjt = NoKjt /\ report = NoReport
    /\ GenIdle /\ BenchIdle

\* torch.distributed.init_process_group
InitProcessGroup ==
    /\ ~dist.initialized
    /\ \E g \in Groups : g.rank < g.world_size /\ dist' = g
    /\ report' = NoReport
    /\ UNCHANGED <<device_count, kjt, environ, genVars, reproVars, benchVars>>

\* torch.distributed.destroy_process_group
DestroyProcessGroup ==
    /\ dist.initialized
    /\ dist' = NoGroup
    /\ report' = NoReport
    /\ UNCHANGED <<device_count, kjt, environ, genVars, reproVars, benchVars>>

SetEnv ==
    /\ \E var \in EnvNames \ environ : environ' = environ \cup {var}
    /\ report' = NoReport
    /\ UNCHANGED <<device_count, kjt, dist, genVars, reproVars, benchVars>>

UnsetEnv ==
    /\ \E var \in environ : environ' = environ \ {var}
    /\ report' = NoReport
    /\ UNCHANGED <<device_count, kjt, dist, genVars, reproVars, benchVars>>

\* What a check hands back: its dict, or the getter its error came from.
Report(op, r) ==
    [NoReport EXCEPT !.op = op, !.raised = r.raised, !.queried = r.queried, !.val = r.val]

CheckSharding ==
    /\ report' = Report("check_sharding", check_sharding(dist, device_count))
    /\ UNCHANGED <<device_count, kjt, dist, environ, genVars, reproVars, benchVars>>

CheckDistributedSetup ==
    /\ report' = Report("check_distributed_setup", check_distributed_setup(environ, dist))
    /\ UNCHANGED <<device_count, kjt, dist, environ, genVars, reproVars, benchVars>>

EnvNext ==
    \/ InitProcessGroup
    \/ DestroyProcessGroup
    \/ SetEnv
    \/ UnsetEnv
    \/ CheckSharding
    \/ CheckDistributedSetup

SpecEnv == EnvInit /\ [][EnvNext]_vars

\* ------------------------------------------------------ benchmark_forward
SampleInputs == {"x1", "x2"}

\* benchmark.py imports neither torch nor Any: the names resolve only where
\* the caller has bound them; a device runtime may or may not be present.
BenchInit ==
    /\ torch_bound \in BOOLEAN
    /\ device_count \in 0 .. MaxDevices
    /\ warmup_steps \in 0 .. MaxSteps
    /\ measure_steps \in 0 .. MaxSteps
    /\ peak \in 0 .. MaxPeak
    /\ pc = "idle" /\ args = NoArgs /\ step = 0 /\ log = <<>> /\ times = NoTimes
    /\ avg_time = Fraction(0, 1) /\ memory_used = 0 /\ result = NoResult
    /\ kjt = NoKjt /\ dist = NoGroup /\ environ = {} /\ report = NoReport
    /\ GenIdle

benchFixed == <<torch_bound, warmup_steps, measure_steps, device_count, kjt, dist,
                environ, report, genVars, reproVars>>

Event(ev, arg, ok) == [ev |-> ev, arg |-> arg, ok |-> ok]

\* An uncaught error ends the call: nothing is returned.
Fail(e) ==
    /\ pc' = "raised"
    /\ log' = Append(log, e)

\* The caller calls benchmark_forward(model, sample_input, batch_size).
StartBenchmark ==
    /\ pc \in {"idle", "returned", "raised"}
    /\ \E x \in SampleInputs, b \in 0 .. MaxBatch :
           args' = [sample_input |-> x, batch_size |-> b]
    /\ pc' = "warmup" /\ step' = 0 /\ log' = <<>> /\ times' = NoTimes
    /\ avg_time' = Fraction(0, 1) /\ memory_used' = 0 /\ result' = NoResult
    /\ UNCHANGED <<peak, benchFixed>>

\* One model(sample_input): it may raise, and may push the peak counter up.
Invoke(loop, count) ==
    /\ pc = loop
    /\ step < count
    /\ \E grow \in 0 .. 1 : peak' = IF peak + grow > MaxPeak THEN peak ELSE peak + grow
    /\ \/ /\ log' = Append(log, Event("model", args.sample_input, TRUE))
          /\ step' = step + 1
          /\ pc' = loop
       \/ /\ Fail(Event("model", args.sample_input, FALSE))
          /\ step' = step
    /\ UNCHANGED <<args, times, avg_time, memory_used, result, benchFixed>>

\* The loop is exhausted.
LoopDone(loop, count, after) ==
    /\ pc = loop
    /\ step >= count
    /\ pc' = after /\ step' = 0
    /\ UNCHANGED <<args, log, times, avg_time, memory_used, peak, result, benchFixed>>

WarmupCall == Invoke("warmup", warmup_range(warmup_steps, measure_steps))

WarmupDone == LoopDone("warmup", warmup_range(warmup_steps, measure_steps), "sync1")

\* torch.cuda.synchronize(): NameError where torch is unbound, and an error
\* from the device runtime where there is no accelerator.
Synchronize(at, after) ==
    /\ pc = at
    /\ IF ~torch_bound THEN Fail(Event("NameError", "torch", FALSE))
       ELSE IF ~cuda_is_available(device_count)
            THEN Fail(Event("synchronize", "", FALSE))
            ELSE /\ log' = Append(log, Event("synchronize", "", TRUE))
                 /\ pc' = after
    /\ UNCHANGED <<args, step, times, avg_time, memory_used, peak, result, benchFixed>>

SyncBefore == Synchronize("sync1", "start")

\* start_time = time.perf_counter(): the first reading is taken as 0.
StartTimer ==
    /\ pc = "start"
    /\ times' = [times EXCEPT !.start_time = 0]
    /\ log' = Append(log, Event("perf_counter", "start_time", TRUE))
    /\ pc' = "measure"
    /\ UNCHANGED <<args, step, avg_time, memory_used, peak, result, benchFixed>>

MeasureCall == Invoke("measure", measure_range(warmup_steps, measure_steps))

MeasureDone == LoopDone("measure", measure_range(warmup_steps, measure_steps), "sync2")

SyncAfter == Synchronize("sync2", "end")

\* end_time = time.perf_counter(): the clock never runs backwards.
StopTimer ==
    /\ pc = "end"
    /\ \E dt \in 0 .. MaxElapsed : times' = [times EXCEPT !.end_time = times.start_time + dt]
    /\ log' = Append(log, Event("perf_counter", "end_time", TRUE))
    /\ pc' = "avg"
    /\ UNCHANGED <<args, step, avg_time, memory_used, peak, result, benchFixed>>

\* avg_time = (end_time - start_time) * 1000 / self.measure_steps
AvgTime ==
    /\ pc = "avg"
    /\ IF measure_steps = 0
       THEN Fail(Event("ZeroDivisionError", "avg_time", FALSE)) /\ UNCHANGED avg_time
       ELSE /\ avg_time' = Fraction((times.end_time - times.start_time) * 1000, measure_steps)
            /\ pc' = "memory"
            /\ UNCHANGED log
    /\ UNCHANGED <<args, step, times, memory_used, peak, result, benchFixed>>

\* memory_used = torch.cuda.max_memory_allocated() / 1e9
ReadPeak ==
    /\ pc = "memory"
    /\ memory_used' = peak
    /\ log' = Append(log, Event("max_memory_allocated", "", TRUE))
    /\ pc' = "throughput"
    /\ UNCHANGED <<args, step, times, avg_time, peak, result, benchFixed>>

\* throughput = batch_size * 1000 / avg_time; return BenchmarkResult(...)
Throughput ==
    /\ pc = "throughput"
    /\ IF avg_time.num = 0
       THEN Fail(Event("ZeroDivisionError", "throughput", FALSE)) /\ UNCHANGED result
       ELSE /\ result' = BenchmarkResult(avg_time, Fraction(memory_used, 1000000000),
                             Fraction(args.batch_size * 1000 * avg_time.den, avg_time.num))
            /\ pc' = "returned"
            /\ UNCHANGED log
    /\ UNCHANGED <<args, step, times, avg_time, memory_used, peak, benchFixed>>

BenchNext ==
    \/ StartBenchmark
    \/ WarmupCall
    \/ WarmupDone
    \/ SyncBefore
    \/ StartTimer
    \/ MeasureCall
    \/ MeasureDone
    \/ SyncAfter
    \/ StopTimer
    \/ AvgTime
    \/ ReadPeak
    \/ Throughput

SpecBench == BenchInit /\ [][BenchNext]_vars

\* ------------------------------------------------- generator properties
res == out.res

Returned(op) == out.op = op /\ res.raised = ""

ValidRange == config.min_sequence_length < config.max_sequence_length

InRange(t, lo, hi) == \A i \in 1 .. Len(t) : lo <= t[i] /\ t[i] < hi

\* C1: every mapping generate_batch returns, whatever calls came before,
\* has sum(lengths) == len(values).
C1_LengthsSumToValues ==
    Returned("generate_batch") => SumSeq(res.lengths) = Len(res.values)

C1_Witness ==
    /\ Returned("generate_batch")
    /\ ValidRange /\ config.num_products >= 1
    /\ ~lastFresh.set \/ lastFresh.values # res.values
    /\ Len(res.values) > Len(res.lengths)

\* The i-th block of the concatenated lengths: batch_size entries per feature.
LengthsBlock(i) ==
    SubSeq(res.lengths, (i - 1) * config.batch_size + 1, i * config.batch_size)

\* The number of values that precede the i-th feature's values.
ValuesOffset(i) == SumSeq(SubSeq(res.lengths, 1, (i - 1) * config.batch_size))

ValuesBlock(i) ==
    SubSeq(res.values, ValuesOffset(i) + 1, ValuesOffset(i) + SumSeq(LengthsBlock(i)))

\* C2: a returned bundle has the keys in input order, as many values as the
\* per-feature totals add up to, and feature i's batch as the i-th block of
\* values and of lengths.
C2_BundleIsConcatenation ==
    Returned("generate_kjt_inputs") =>
        /\ res.keys = out.names
        /\ Len(res.batches) = Len(out.names)
        /\ Len(res.values) =
               SumSeq([i \in 1 .. Len(res.batches) |-> SumSeq(res.batches[i].lengths)])
        /\ Len(res.lengths) = Len(out.names) * config.batch_size
        /\ \A i \in 1 .. Len(out.names) :
               /\ LengthsBlock(i) = res.batches[i].lengths
               /\ ValuesBlock(i) = res.batches[i].values
               /\ SumSeq(LengthsBlock(i)) = Len(ValuesBlock(i))

C2_Witness ==
    /\ Returned("generate_kjt_inputs")
    /\ out.names = <<"f2", "f1">>
    /\ res.batches[1].values # res.batches[2].values
    /\ res.batches[1].lengths # res.batches[2].lengths
    /\ Len(res.batches[1].values) >= 2

\* C3: with min < max the lengths are batch_size many, each in [min, max),
\* and the values of a returned batch are each in [0, num_products).
C3_RangesRespected ==
    /\ (out.op = "generate_sequence_lengths" /\ ValidRange) =>
           /\ res.raised = ""
           /\ Len(res.lengths) = out.n
           /\ InRange(res.lengths, config.min_sequence_length, config.max_sequence_length)
    /\ (Returned("generate_batch") /\ ValidRange) =>
           /\ Len(res.lengths) = config.batch_size
           /\ InRange(res.lengths, config.min_sequence_length, config.max_sequence_length)
           /\ InRange(res.values, 0, config.num_products)

C3_Witness ==
    /\ Returned("generate_batch")
    /\ config.min_sequence_length = 1 /\ config.max_sequence_length = 3
    /\ config.batch_size = 2
    /\ \E i, j \in 1 .. Len(res.lengths) : res.lengths[i] # res.lengths[j]
    /\ \E i, j \in 1 .. Len(res.values) : res.values[i] # res.values[j]

\* C4: with min == max the range primitive raises; nothing catches it, so no
\* lengths, no batch and (for a non-empty feature list) no bundle comes back.
C4_EqualBoundsRaise ==
    (config.min_sequence_length = config.max_sequence_length) =>
        /\ out.op \in {"generate_sequence_lengths", "generate_batch"} =>
               /\ res.raised = "randint"
               /\ res.values = <<>> /\ res.lengths = <<>>
        /\ (out.op = "generate_kjt_inputs" /\ out.names # <<>>) =>
               /\ res.raised = "randint"
               /\ res.keys = <<>> /\ res.values = <<>> /\ res.lengths = <<>>

C4_Witness ==
    /\ config.min_sequence_length = config.max_sequence_length
    /\ config.min_sequence_length >= 1 /\ config.batch_size >= 1
    /\ out.op = "generate_kjt_inputs" /\ Len(out.names) = MaxFeatures
    /\ res.raised = "randint"

\* C5, as stated: with a seed set, a generate_batch call returns the values
\* and lengths the previous call on the same generator returned.
C5_RepeatedCallsIdentical ==
    [][(GenerateBatch /\ Seeded /\ Returned("generate_batch")) =>
           /\ res'.values = res.values
           /\ res'.lengths = res.lengths]_vars

\* C5, amended: with a seed set, generate_batch returns the same values and
\* lengths each time it is the first draw after constructing a generator from
\* that DataConfig.
C5_FirstBatchAfterSeedingIdentical ==
    (Seeded /\ prevFresh.set /\ lastFresh.set) => prevFresh = lastFresh

C5_Witness ==
    /\ Seeded /\ prevFresh.set /\ lastFresh.set
    /\ lastFresh.raised = ""
    /\ \E i, j \in 1 .. Len(lastFresh.values) : lastFresh.values[i] # lastFresh.values[j]
    /\ Returned("generate_batch") /\ res.values # lastFresh.values

\* C8: with an empty feature list generate_kjt_inputs returns empty keys,
\* values and lengths, raises nothing and draws nothing.
C8_EmptyNamesYieldEmptyBundle ==
    [][(GenerateKjtInputs /\ out'.op = "generate_kjt_inputs" /\ out'.names = <<>>) =>
           /\ res'.raised = ""
           /\ res'.keys = <<>> /\ res'.values = <<>> /\ res'.lengths = <<>>
           /\ rng' = rng]_vars

\* C6: two runs that build the generator from the same seeded DataConfig and
\* then make the same calls get the same result call by call, whatever state
\* each run's generator was in before, nothing else drawing in between.
C6_SeededRunsAgree ==
    out = out2 /\ rng = rng2

C6_Witness ==
    /\ diverged
    /\ out.op = "generate_kjt_inputs" /\ out.res.raised = ""
    /\ out2.op = "generate_kjt_inputs"
    /\ \E i, j \in 1 .. Len(out2.res.values) : out2.res.values[i] # out2.res.values[j]

\* C7: lengths_match is False exactly when the lengths do not sum to the
\* number of values, whatever the keys and the device checks say.
C7_LengthsMatchIsSumCheck ==
    report.op = "validate_kjt" =>
        /\ report.checks.lengths_match = (SumSeq(kjt.lengths) = Len(kjt.values))
        /\ report.checks.valid_keys = (kjt.keys # <<>>)
        /\ report.checks.on_device = (device_count = 0 \/ kjt.is_cuda)

C7_Witness ==
    /\ report.op = "validate_kjt"
    /\ kjt.keys = <<>> /\ device_count > 0 /\ ~kjt.is_cuda
    /\ Len(kjt.lengths) = Len(kjt.values) /\ SumSeq(kjt.lengths) # Len(kjt.values)
    /\ ~report.checks.lengths_match /\ ~report.checks.valid_keys /\ ~report.checks.on_device

\* C10: with no process group the checks answer world_size 1, local_rank 0,
\* not initialized and backend None without asking the group (so they do not
\* raise); with a group they answer the group's values; env_vars_set is True
\* exactly when the four required names are all set.
C10_SingleProcessDefaults ==
    /\ report.op = "check_sharding" =>
           /\ report.raised = ""
           /\ report.val.device_count = device_count
           /\ IF dist.initialized
              THEN /\ report.val.world_size = dist.world_size
                   /\ report.val.local_rank = dist.rank
              ELSE /\ report.val.world_size = 1
                   /\ report.val.local_rank = 0
                   /\ report.queried = {}
    /\ report.op = "check_distributed_setup" =>
           /\ report.raised = ""
           /\ report.val.process_group_initialized = dist.initialized
           /\ report.val.env_vars_set = (required_vars \subseteq environ)
           /\ IF dist.initialized
              THEN report.val.backend = dist.backend
              ELSE report.val.backend = <<>> /\ report.queried = {}

C10_Witness ==
    /\ report.op = "check_distributed_setup"
    /\ ~dist.initialized /\ required_vars \subseteq environ
    /\ report.val.env_vars_set /\ ~report.val.process_group_initialized
    /\ report.val.backend = <<>>

\* The events of a completed run, in order.
Repeat(n, e) == [k \in 1 .. n |-> e]

ExpectedLog(w, m, x) ==
    Repeat(w, Event("model", x, TRUE))
        \o <<Event("synchronize", "", TRUE), Event("perf_counter", "start_time", TRUE)>>
        \o Repeat(m, Event("model", x, TRUE))
        \o <<Event("synchronize", "", TRUE), Event("perf_counter", "end_time", TRUE),
             Event("max_memory_allocated", "", TRUE)>>

\* C9: a run that returns has made warmup_steps invocations, a synchronize,
\* the start reading, measure_steps invocations, a synchronize, the end
\* reading and the peak read, in that order, every invocation on the same
\* sample_input; no step lowers the peak counter; after an invocation that
\* raised nothing more is called and no result is returned.
C9_BenchmarkEventOrder ==
    [][/\ peak' >= peak
       /\ pc' = "returned" =>
              /\ log' = ExpectedLog(warmup_steps, measure_steps, args'.sample_input)
              /\ result'.set
              /\ result'.memory_used_gb.num = peak'
       /\ \A k \in 1 .. Len(log') :
              ~log'[k].ok => (k = Len(log') /\ pc' = "raised" /\ ~result'.set)
       /\ pc' # "returned" => ~result'.set]_vars

C9_Witness ==
    /\ pc = "returned"
    /\ warmup_steps = 1 /\ measure_steps = 2
    /\ Len(log) = 8
    /\ result.set /\ result.throughput.num > 0 /\ result.memory_used_gb.num > 0

====
